---- MODULE Spec2Model ----
(***************************************************************************)
(* Duplicate file detector: duplicate_file_detector.py (the core and its   *)
(* command-line host, main) and duplicate_detector_gui.py (the Tkinter     *)
(* host, which runs the core on a background thread per click).            *)
(*                                                                         *)
(* Spec        one host session: either one command-line run of main, or   *)
(*             a GUI session with clicks on the analyze button.            *)
(* SpecFormat  format_size applied to a byte count.                        *)
(***************************************************************************)
EXTENDS Integers, Sequences, FiniteSets, TLC

\* ---- bounds of the model ----
MaxFiles == 3      \* files under the directory of a command-line run
GuiFiles == 1      \* files under the directory of a GUI session
MaxClicks == 2     \* clicks on the analyze button in a GUI session
MaxSize == 2       \* largest file size os.path.getsize reports
MaxDigits == 6     \* base-1024 digits of a byte count given to format_size

\* ---- program constants ----
Base == 1024
Units == <<"B", "KB", "MB", "GB", "TB">>
Header == <<"Hash", "Ruta de archivo duplicado">>

\* ---- the environment's value sets ----
PathNames == <<"f1", "f2", "f3", "f4", "f5">>
Digests == {"a", "b"}
None == "None"
NoResult == [kind |-> "None"]
StaleReport == [exists |-> TRUE, rows |-> <<Header, <<"stale", "stale">>, <<"stale", "stale2">>>>]
NoReport == [exists |-> FALSE, rows |-> <<>>]
DigitSet == {0, 1, 512, Base - 1}

VARIABLES
    host,               \* "cli" (main), "gui" (DuplicateDetectorGUI) or "format"
    isdir,              \* os.path.isdir of the path typed at main's prompt
    hashOf,             \* the tree: path -> digest compute_file_hash returns, None if the read fails
    report,             \* the file duplicados.csv
    oldReport,          \* duplicados.csv as it was before the session (history)
    pc,                 \* main's position
    todo,               \* files os.walk has not yielded yet
    hashed,             \* path -> number of compute_file_hash calls (history)
    hash_to_files,      \* find_duplicate_files: hash_to_files, in insertion order
    total_files,        \* find_duplicate_files: total_files
    duplicates,         \* main: duplicates
    total_duplicates,   \* main: total_duplicates
    reclaimable_space,  \* main: reclaimable_space
    sizes,              \* path -> outcome of os.path.getsize in this run (history)
    stdout,             \* lines main printed
    summary,            \* the completion summary main printed
    stderr,             \* tracebacks of uncaught exceptions
    clicks,             \* GUI: outcome of each click on the analyze button
    threads,            \* GUI: the background threads, in start order
    status_label,       \* GUI: status_label
    messagebox,         \* GUI: number of messagebox.showerror dialogs
    bytes_arg,          \* format_size: its argument, base-1024 digits, most significant first
    fmt_result          \* format_size: what it returned

fsvars == <<host, isdir, hashOf, report, oldReport>>
clivars == <<pc, todo, hashed, hash_to_files, total_files, duplicates, total_duplicates,
             reclaimable_space, sizes, stdout, summary>>
guivars == <<clicks, threads, status_label, messagebox>>
fmtvars == <<bytes_arg, fmt_result>>
vars == <<fsvars, clivars, guivars, fmtvars, stderr>>

\* ---- helpers ----
Range(s) == {s[i] : i \in 1..Len(s)}
Perms(S) == {s \in [1..Cardinality(S) -> S] : \A i, j \in 1..Cardinality(S) : s[i] = s[j] => i = j}
FilesUpTo(n) == {PathNames[i] : i \in 1..n}
Front(s) == SubSeq(s, 1, Len(s) - 1)
Last(s) == s[Len(s)]

\* ---- compute_file_hash ----
\* The SHA-256 hex digest of the file's content, or None when open/read raises.
ComputeFileHash(path) == hashOf[path]

\* ---- find_duplicate_files ----
\* hash_to_files is a defaultdict(list); a dict keeps its keys in insertion
\* order, so it is a sequence of entries [hash, paths].
KeyIndex(d, h) ==
    IF \E i \in 1..Len(d) : d[i].hash = h
    THEN CHOOSE i \in 1..Len(d) : d[i].hash = h
    ELSE 0

HashStep_Consecutive(d, path, file_hash) ==
    IF file_hash = None THEN d
    ELSE IF d # <<>> /\ Last(d).hash = file_hash
         THEN [d EXCEPT ![Len(d)].paths = Append(@, path)]
         ELSE Append(d, [hash |-> file_hash, paths |-> <<path>>])

HashStep_KeepsNone(d, path, file_hash) ==
    LET i == KeyIndex(d, file_hash) IN
    IF i = 0 THEN Append(d, [hash |-> file_hash, paths |-> <<path>>])
    ELSE [d EXCEPT ![i].paths = Append(@, path)]

\* The loop body: `if file_hash: hash_to_files[file_hash].append(full_path)`.
HashStep(d, path, file_hash) ==
    IF file_hash = None THEN d
    ELSE LET i == KeyIndex(d, file_hash) IN
         IF i = 0 THEN Append(d, [hash |-> file_hash, paths |-> <<path>>])
         ELSE [d EXCEPT ![i].paths = Append(@, path)]

FilterDuplicates_KeepsSingletons(d) == SelectSeq(d, LAMBDA e : Len(e.paths) > 0)

\* {h: paths for h, paths in hash_to_files.items() if len(paths) > 1}
FilterDuplicates(d) == SelectSeq(d, LAMBDA e : Len(e.paths) > 1)

\* The two loops over os.walk, for the order in which it yields the files.
RECURSIVE Walk(_, _)
Walk(d, order) ==
    IF order = <<>> THEN d
    ELSE Walk(HashStep(d, Head(order), ComputeFileHash(Head(order))), Tail(order))

FindDuplicateFiles(order) == FilterDuplicates(Walk(<<>>, order))

\* sum(len(paths) - 1 for paths in duplicates.values())
RECURSIVE TotalDuplicates(_)
TotalDuplicates(dups) ==
    IF dups = <<>> THEN 0
    ELSE (Len(Head(dups).paths) - 1) + TotalDuplicates(Tail(dups))

\* ---- calculate_reclaimable_space ----
PathsAfterFirst_All(paths) == paths

\* paths[1:]
PathsAfterFirst(paths) == IF paths = <<>> THEN <<>> ELSE Tail(paths)

\* The paths whose size one call queries.
Queried(dups) == UNION {Range(PathsAfterFirst(dups[i].paths)) : i \in 1..Len(dups)}

\* What os.path.getsize can do for one path: return a size or raise.
SizeOutcomes == {[ok |-> FALSE, size |-> 0]} \cup {[ok |-> TRUE, size |-> s] : s \in 1..MaxSize}

\* The inner loop: try: space += os.path.getsize(path) / except: print.
RECURSIVE SumPaths(_, _, _)
SumPaths(paths, sz, space) ==
    IF paths = <<>> THEN space
    ELSE SumPaths(Tail(paths), sz,
                  IF sz[Head(paths)].ok THEN space + sz[Head(paths)].size ELSE space)

RECURSIVE SpaceLoop(_, _, _)
SpaceLoop(dups, sz, space) ==
    IF dups = <<>> THEN space
    ELSE SpaceLoop(Tail(dups), sz, SumPaths(PathsAfterFirst(Head(dups).paths), sz, space))

CalculateReclaimableSpace(dups, sz) == SpaceLoop(dups, sz, 0)

\* ---- save_results_to_csv ----
RECURSIVE GroupRows(_, _)
GroupRows(hash_val, paths) ==
    IF paths = <<>> THEN <<>>
    ELSE <<<<hash_val, Head(paths)>>>> \o GroupRows(hash_val, Tail(paths))

RECURSIVE DataRows(_)
DataRows(dups) ==
    IF dups = <<>> THEN <<>>
    ELSE GroupRows(Head(dups).hash, Head(dups).paths) \o DataRows(Tail(dups))

CsvRows_SkipsCanonical(dups) ==
    <<Header>> \o DataRows([i \in 1..Len(dups) |->
                              [hash |-> dups[i].hash, paths |-> Tail(dups[i].paths)]])

\* writer.writerow(header), then writer.writerow([hash_val, path]) per path.
CsvRows(dups) == <<Header>> \o DataRows(dups)

OpenForWrite_Append(file) == [exists |-> TRUE, rows |-> file.rows]

\* open(filename, mode='w'): creates the file or truncates it to length zero.
OpenForWrite(file) == [exists |-> TRUE, rows |-> <<>>]

\* The rows reach the file at the handle's own offset, which starts at 0: they
\* replace what is there and leave what lies beyond them.
WriteAt(file, rows) ==
    [exists |-> TRUE, rows |-> rows \o SubSeq(file.rows, Len(rows) + 1, Len(file.rows))]

\* ---- format_size ----
\* A value is its integer part (base-1024 digits, most significant first, no
\* leading zero) and its fraction digits: division by 1024 is exact.
RECURSIVE ToDigits(_)
ToDigits(n) == IF n < Base THEN <<n>> ELSE Append(ToDigits(n \div Base), n % Base)

\* bytes < 1024
Below1024(v) == Len(v.ip) <= 1

\* bytes /= 1024
Div1024(v) ==
    [ip |-> IF Len(v.ip) <= 1 THEN <<0>> ELSE Front(v.ip),
     fp |-> <<Last(v.ip)>> \o v.fp]

\* The fraction in hundredths, rounded half to even as "%.2f" rounds.
RECURSIVE Hundredths(_, _, _)
Hundredths(fp, carry, sticky) ==
    IF fp = <<>> THEN 0
    ELSE LET t == Last(fp) * 100 + carry
             q == t \div Base
             r == t % Base
         IN  IF Len(fp) > 1 THEN Hundredths(Front(fp), q, sticky \/ r # 0)
             ELSE IF 2 * r > Base \/ (2 * r = Base /\ sticky) THEN q + 1
             ELSE IF 2 * r = Base /\ q % 2 = 1 THEN q + 1
             ELSE q

\* f"{bytes:.2f} {unit}"
Render(v, unit) ==
    LET h == Hundredths(v.fp, 0, FALSE) IN
    [kind |-> "str",
     int |-> IF h = 100 THEN v.ip[1] + 1 ELSE v.ip[1],
     cents |-> IF h = 100 THEN 0 ELSE h,
     unit |-> unit]

\* for unit in [...]: if bytes < 1024: return ...; bytes /= 1024  -- and the
\* function ends without a return statement when the loop runs out.
RECURSIVE FormatLoop(_, _)
FormatLoop(v, i) ==
    IF i > Len(Units) THEN NoResult
    ELSE IF Below1024(v) THEN Render(v, Units[i])
    ELSE FormatLoop(Div1024(v), i + 1)

FormatSize(bytes) == FormatLoop([ip |-> bytes, fp |-> <<>>], 1)

\* ---- the initial state ----
EmptyMap == [p \in {} |-> None]
NoSummary == [shown |-> FALSE]
IdleLabel == [text |-> ""]
BusyLabel == [text |-> "Analizando archivos..."]
Locals(at, dups, total, space) ==
    [pc |-> at, duplicates |-> dups, total_duplicates |-> total, space_reclaimable |-> space]

InitRun ==
    /\ pc = "input"
    /\ todo = {}
    /\ hashed = [p \in DOMAIN hashOf |-> 0]
    /\ hash_to_files = <<>>
    /\ total_files = 0
    /\ duplicates = <<>>
    /\ total_duplicates = 0
    /\ reclaimable_space = 0
    /\ sizes = EmptyMap
    /\ stdout = <<>>
    /\ summary = NoSummary
    /\ stderr = <<>>

InitGui ==
    /\ clicks = <<>>
    /\ threads = <<>>
    /\ status_label = IdleLabel
    /\ messagebox = 0

Init ==
    /\ host \in {"cli", "gui"}
    /\ isdir \in (IF host = "cli" THEN BOOLEAN ELSE {TRUE})
    /\ \E n \in 0..(IF host = "gui" THEN GuiFiles ELSE IF isdir THEN MaxFiles ELSE 0) :
           hashOf \in [FilesUpTo(n) -> Digests \cup {None}]
    /\ report \in {NoReport, StaleReport}
    /\ oldReport = report
    /\ InitRun
    /\ InitGui
    /\ bytes_arg = <<0>>
    /\ fmt_result = NoResult

\* ---- main ----
MainStart_NoValidation ==
    /\ host = "cli"
    /\ pc = "input"
    /\ stdout' = Append(stdout, "Analizando archivos...")
    /\ todo' = DOMAIN hashOf
    /\ pc' = "walk"
    /\ UNCHANGED <<fsvars, hashed, hash_to_files, total_files, duplicates, total_duplicates,
                   reclaimable_space, sizes, summary, stderr, guivars, fmtvars>>

\* directory = input(...); if not os.path.isdir(directory): print; return
MainStart ==
    /\ host = "cli"
    /\ pc = "input"
    /\ IF ~isdir
       THEN /\ stdout' = Append(stdout, "Ruta no valida.")
            /\ pc' = "returned"
            /\ UNCHANGED todo
       ELSE /\ stdout' = Append(stdout, "Analizando archivos...")
            /\ todo' = DOMAIN hashOf
            /\ pc' = "walk"
    /\ UNCHANGED <<fsvars, hashed, hash_to_files, total_files, duplicates, total_duplicates,
                   reclaimable_space, sizes, summary, stderr, guivars, fmtvars>>

\* One iteration of `for filename in filenames`, for the file os.walk yields next.
ScanFile(f) ==
    /\ host = "cli"
    /\ pc = "walk"
    /\ f \in todo
    /\ LET file_hash == ComputeFileHash(f) IN
       /\ hash_to_files' = HashStep(hash_to_files, f, file_hash)
       /\ total_files' = IF file_hash = None THEN total_files ELSE total_files + 1
    /\ hashed' = [hashed EXCEPT ![f] = @ + 1]
    /\ todo' = todo \ {f}
    /\ UNCHANGED <<fsvars, pc, duplicates, total_duplicates, reclaimable_space, sizes,
                   stdout, summary, stderr, guivars, fmtvars>>

ReturnDuplicates_InsideLoop ==
    /\ host = "cli"
    /\ pc = "walk"
    /\ hash_to_files # <<>>
    /\ duplicates' = FilterDuplicates(hash_to_files)
    /\ total_duplicates' = TotalDuplicates(duplicates')
    /\ pc' = "estimate"
    /\ UNCHANGED <<fsvars, todo, hashed, hash_to_files, total_files, reclaimable_space, sizes,
                   stdout, summary, stderr, guivars, fmtvars>>

\* os.walk is exhausted: find_duplicate_files filters and returns, main counts.
ReturnDuplicates ==
    /\ host = "cli"
    /\ pc = "walk"
    /\ todo = {}
    /\ duplicates' = FilterDuplicates(hash_to_files)
    /\ total_duplicates' = TotalDuplicates(duplicates')
    /\ pc' = "estimate"
    /\ UNCHANGED <<fsvars, todo, hashed, hash_to_files, total_files, reclaimable_space, sizes,
                   stdout, summary, stderr, guivars, fmtvars>>

\* reclaimable_space = calculate_reclaimable_space(duplicates)
Estimate ==
    /\ host = "cli"
    /\ pc = "estimate"
    /\ \E sz \in [Queried(duplicates) -> SizeOutcomes] :
           /\ sizes' = sz
           /\ reclaimable_space' = CalculateReclaimableSpace(duplicates, sz)
    /\ pc' = "save"
    /\ UNCHANGED <<fsvars, todo, hashed, hash_to_files, total_files, duplicates,
                   total_duplicates, stdout, summary, stderr, guivars, fmtvars>>

\* save_results_to_csv: `with open(filename, mode='w', ...)`; an OSError it
\* raises is caught nowhere and ends main with a traceback.
SaveOpen ==
    /\ host = "cli"
    /\ pc = "save"
    /\ \/ /\ report' = OpenForWrite(report)
          /\ pc' = "write"
          /\ UNCHANGED stderr
       \/ /\ pc' = "raised"
          /\ stderr' = Append(stderr, "OSError")
          /\ UNCHANGED report
    /\ UNCHANGED <<host, isdir, hashOf, oldReport, todo, hashed, hash_to_files, total_files,
                   duplicates, total_duplicates, reclaimable_space, sizes, stdout, summary,
                   guivars, fmtvars>>

\* save_results_to_csv: the writerow calls and the close; a failing write
\* leaves the rows written so far and raises.
SaveWrite ==
    /\ host = "cli"
    /\ pc = "write"
    /\ LET rows == CsvRows(duplicates) IN
       \/ /\ report' = WriteAt(report, rows)
          /\ pc' = "summary"
          /\ UNCHANGED stderr
       \/ \E k \in 0..(Len(rows) - 1) :
              /\ report' = WriteAt(report, SubSeq(rows, 1, k))
              /\ pc' = "raised"
              /\ stderr' = Append(stderr, "OSError")
    /\ UNCHANGED <<host, isdir, hashOf, oldReport, todo, hashed, hash_to_files, total_files,
                   duplicates, total_duplicates, reclaimable_space, sizes, stdout, summary,
                   guivars, fmtvars>>

\* The four print calls that end main.
PrintSummary ==
    /\ host = "cli"
    /\ pc = "summary"
    /\ stdout' = stdout \o <<"Analisis completado.", "Resultado exportado a 'duplicados.csv'.">>
    /\ summary' = [shown |-> TRUE, total |-> total_duplicates,
                   size |-> FormatSize(ToDigits(reclaimable_space))]
    /\ pc' = "done"
    /\ UNCHANGED <<fsvars, todo, hashed, hash_to_files, total_files, duplicates,
                   total_duplicates, reclaimable_space, sizes, stderr, guivars, fmtvars>>

\* ---- DuplicateDetectorGUI ----
\* run_analysis, the analyze button's command: the path in the entry is a
\* directory or not; a thread is started for every click with a directory.
RunAnalysis ==
    /\ host = "gui"
    /\ Len(clicks) < MaxClicks
    /\ \/ /\ clicks' = Append(clicks, "invalid")
          /\ messagebox' = messagebox + 1
          /\ UNCHANGED <<threads, status_label>>
       \/ /\ clicks' = Append(clicks, "started")
          /\ status_label' = BusyLabel
          /\ threads' = Append(threads, Locals("find", <<>>, 0, 0))
          /\ UNCHANGED messagebox
    /\ UNCHANGED <<fsvars, clivars, stderr, fmtvars>>

\* analyze_duplicates: find_duplicate_files and the count of duplicates.
ThreadFind(t) ==
    /\ host = "gui"
    /\ t \in 1..Len(threads)
    /\ threads[t].pc = "find"
    /\ \E order \in Perms(DOMAIN hashOf) :
           LET dups == FindDuplicateFiles(order) IN
           threads' = [threads EXCEPT ![t] = Locals("estimate", dups, TotalDuplicates(dups), 0)]
    /\ UNCHANGED <<fsvars, clivars, stderr, clicks, status_label, messagebox, fmtvars>>

\* analyze_duplicates: calculate_reclaimable_space.
ThreadEstimate(t) ==
    /\ host = "gui"
    /\ t \in 1..Len(threads)
    /\ threads[t].pc = "estimate"
    /\ \E sz \in [Queried(threads[t].duplicates) -> SizeOutcomes] :
           threads' = [threads EXCEPT
                          ![t].space_reclaimable = CalculateReclaimableSpace(threads[t].duplicates, sz),
                          ![t].pc = "save"]
    /\ UNCHANGED <<fsvars, clivars, stderr, clicks, status_label, messagebox, fmtvars>>

\* The thread's target raised: threading's excepthook prints the traceback and
\* the thread ends; nothing tells the window.
ThreadDies(t) ==
    /\ threads' = [threads EXCEPT ![t] = Locals("died", <<>>, 0, 0)]
    /\ stderr' = Append(stderr, "OSError")

\* analyze_duplicates: save_results_to_csv opens the report.
ThreadOpen(t) ==
    /\ host = "gui"
    /\ t \in 1..Len(threads)
    /\ threads[t].pc = "save"
    /\ \/ /\ report' = OpenForWrite(report)
          /\ threads' = [threads EXCEPT ![t].pc = "write"]
          /\ UNCHANGED stderr
       \/ /\ ThreadDies(t)
          /\ UNCHANGED report
    /\ UNCHANGED <<host, isdir, hashOf, oldReport, clivars, clicks, status_label, messagebox, fmtvars>>

\* analyze_duplicates: save_results_to_csv writes the rows and closes.
ThreadWrite(t) ==
    /\ host = "gui"
    /\ t \in 1..Len(threads)
    /\ threads[t].pc = "write"
    /\ LET rows == CsvRows(threads[t].duplicates) IN
       \/ /\ report' = WriteAt(report, rows)
          /\ threads' = [threads EXCEPT ![t].pc = "report"]
          /\ UNCHANGED stderr
       \/ \E k \in 0..(Len(rows) - 1) :
              /\ report' = WriteAt(report, SubSeq(rows, 1, k))
              /\ ThreadDies(t)
    /\ UNCHANGED <<host, isdir, hashOf, oldReport, clivars, clicks, status_label, messagebox, fmtvars>>

\* analyze_duplicates: self.status_label.config(text=result_msg), and return.
ThreadReport(t) ==
    /\ host = "gui"
    /\ t \in 1..Len(threads)
    /\ threads[t].pc = "report"
    /\ status_label' = [text |-> "Analisis completado.", by |-> t,
                        total |-> threads[t].total_duplicates,
                        size |-> FormatSize(ToDigits(threads[t].space_reclaimable))]
    /\ threads' = [threads EXCEPT ![t] = Locals("exit", <<>>, 0, 0)]
    /\ UNCHANGED <<fsvars, clivars, stderr, clicks, messagebox, fmtvars>>

Next ==
    \/ MainStart
    \/ \E f \in DOMAIN hashOf : ScanFile(f)
    \/ ReturnDuplicates
    \/ Estimate
    \/ SaveOpen
    \/ SaveWrite
    \/ PrintSummary
    \/ RunAnalysis
    \/ \E t \in 1..MaxClicks : ThreadFind(t)
    \/ \E t \in 1..MaxClicks : ThreadEstimate(t)
    \/ \E t \in 1..MaxClicks : ThreadOpen(t)
    \/ \E t \in 1..MaxClicks : ThreadWrite(t)
    \/ \E t \in 1..MaxClicks : ThreadReport(t)

Spec == Init /\ [][Next]_vars

\* ---- format_size on its own ----
DigitStrings ==
    UNION {{d \in [1..n -> DigitSet] : n > 1 => d[1] # 0} : n \in 1..MaxDigits}

InitFormat ==
    /\ host = "format"
    /\ isdir = FALSE
    /\ hashOf = EmptyMap
    /\ report = NoReport
    /\ oldReport = report
    /\ InitRun
    /\ InitGui
    /\ bytes_arg \in DigitStrings
    /\ fmt_result = [kind |-> "pending"]

FormatCall ==
    /\ host = "format"
    /\ fmt_result = [kind |-> "pending"]
    /\ fmt_result' = FormatSize(bytes_arg)
    /\ UNCHANGED <<fsvars, clivars, guivars, stderr, bytes_arg>>

NextFormat == FormatCall

SpecFormat == InitFormat /\ [][NextFormat]_vars

\* ---- the claims ----
Files == DOMAIN hashOf
Readable == {f \in Files : hashOf[f] # None}
Members(dups, i) == Range(dups[i].paths)
Places(dups, f) ==
    UNION {{<<i, j>> : j \in {k \in 1..Len(dups[i].paths) : dups[i].paths[k] = f}} :
              i \in 1..Len(dups)}
Grouping(dups) == {<<dups[i].hash, Members(dups, i)>> : i \in 1..Len(dups)}
RECURSIVE SetSum(_)
SetSum(S) == IF S = {} THEN 0 ELSE LET x == CHOOSE x \in S : TRUE IN x[2] + SetSum(S \ {x})
RowCount(dups) == SetSum({<<i, Len(dups[i].paths)>> : i \in 1..Len(dups)})
Returned == host = "cli" /\ pc \in {"estimate", "save", "write", "summary", "done", "raised"}
Estimated == host = "cli" /\ pc \in {"save", "write", "summary", "done", "raised"}
Saved == host = "cli" /\ pc \in {"summary", "done"}

GroupingOK(dups) ==
    /\ \A i \in 1..Len(dups) : Len(dups[i].paths) >= 2
    /\ \A i \in 1..Len(dups) : \A f \in Members(dups, i) :
           f \in Readable /\ hashOf[f] = dups[i].hash
    /\ \A i, k \in 1..Len(dups) : dups[i].hash = dups[k].hash => i = k
    /\ \A f \in Readable :
           IF \E g \in Readable \ {f} : hashOf[g] = hashOf[f]
           THEN Cardinality(Places(dups, f)) = 1
           ELSE Places(dups, f) = {}

\* C1: the mapping find_duplicate_files returns has only groups of two or more
\* paths, every path in a group was hashed to the group's digest, and a hashed
\* file is in the result exactly when another hashed file shares its digest,
\* then exactly once and in the one group of that digest.
C1_GroupsAreExactlyTheDuplicates ==
    /\ Returned => GroupingOK(duplicates)
    /\ host = "gui" => \A t \in 1..Len(threads) :
           threads[t].pc \in {"estimate", "save", "write", "report"}
               => GroupingOK(threads[t].duplicates)

C1_Witness ==
    /\ Returned
    /\ duplicates # <<>>
    /\ \E f \in Readable : Places(duplicates, f) = {}

\* C2: for an unchanged tree the digest -> set-of-paths grouping is the same for
\* every order in which the files are enumerated; only the order of the paths
\* inside a group may differ.
C2_GroupingIgnoresEnumerationOrder ==
    Returned => \A order \in Perms(Files) :
                    Grouping(FindDuplicateFiles(order)) = Grouping(duplicates)

C2_Witness ==
    /\ Returned
    /\ duplicates # <<>>
    /\ \E order \in Perms(Files) : FindDuplicateFiles(order) # duplicates

\* C3: calculate_reclaimable_space returns the sum, over all groups, of the
\* sizes of every member but the first; a member whose size query fails adds
\* zero and the rest is still summed, so a group of n files of one size s with
\* no failure adds (n-1)*s.
Removable(dups) == {f \in Files : \E pl \in Places(dups, f) : pl[2] >= 2}
C3_ReclaimableIsSumOfNonCanonical ==
    Estimated =>
        /\ DOMAIN sizes = Removable(duplicates)
        /\ reclaimable_space =
               SetSum({<<f, IF sizes[f].ok THEN sizes[f].size ELSE 0>> : f \in Removable(duplicates)})
        /\ \A s \in 1..MaxSize :
               (Len(duplicates) = 1 /\ \A f \in DOMAIN sizes : sizes[f] = [ok |-> TRUE, size |-> s])
                   => reclaimable_space = (Len(duplicates[1].paths) - 1) * s

C3_Witness ==
    /\ Estimated
    /\ \E f, g \in DOMAIN sizes : ~sizes[f].ok /\ sizes[g].ok
    /\ reclaimable_space > 0

\* C4: a file whose read fails is in no group and does not end the run: the
\* other files are still hashed and grouped, and the run goes on to the
\* estimate and the export.
C4_UnreadableFileIsSkipped ==
    host = "cli" =>
        /\ \A f \in Files : hashOf[f] = None =>
               Places(hash_to_files, f) = {} /\ Places(duplicates, f) = {}
        /\ \A i \in 1..Len(hash_to_files) : hash_to_files[i].hash \in Digests
        /\ \A f \in Readable : hashed[f] = 1 =>
               \E pl \in Places(hash_to_files, f) : hash_to_files[pl[1]].hash = hashOf[f]
        /\ pc \in {"done", "raised"} =>
               /\ \A f \in Files : hashed[f] = 1
               /\ total_files = Cardinality(Readable)
               /\ DOMAIN sizes = Removable(duplicates)
        /\ stderr # <<>> => pc = "raised"

C4_Witness ==
    /\ host = "cli"
    /\ pc = "done"
    /\ \E f \in Files : hashOf[f] = None
    /\ duplicates # <<>>

\* C5: when the path is no directory, the run ends in the invalid-directory
\* outcome with no file enumerated or hashed and the report untouched; in the
\* GUI a click with such a path starts no thread.
C5_InvalidDirectoryDoesNothing ==
    /\ (host = "cli" /\ ~isdir) =>
           /\ pc \in {"input", "returned"}
           /\ pc = "returned" => stdout = <<"Ruta no valida.">>
           /\ todo = {} /\ hash_to_files = <<>> /\ \A f \in Files : hashed[f] = 0
           /\ report = oldReport
           /\ ~summary.shown
    /\ host = "gui" =>
           /\ Len(threads) = Cardinality({i \in 1..Len(clicks) : clicks[i] = "started"})
           /\ messagebox = Cardinality({i \in 1..Len(clicks) : clicks[i] = "invalid"})
           /\ (\A i \in 1..Len(clicks) : clicks[i] = "invalid") =>
                  report = oldReport /\ status_label = IdleLabel

C5_Witness ==
    /\ host = "cli"
    /\ ~isdir
    /\ pc = "returned"
    /\ oldReport.exists

\* C6: after save_results_to_csv succeeds the report is the header row followed
\* by exactly one row (digest, path) per path of every group, the first path of
\* a group included, and nothing of what the file held before.
ReportIsExactly(dups) ==
    /\ report.exists
    /\ Len(report.rows) = 1 + RowCount(dups)
    /\ report.rows[1] = Header
    /\ \A r \in 2..Len(report.rows) :
           \E i \in 1..Len(dups) : \E f \in Members(dups, i) : report.rows[r] = <<dups[i].hash, f>>
    /\ \A i \in 1..Len(dups) : \A f \in Members(dups, i) :
           Cardinality({r \in 2..Len(report.rows) : report.rows[r] = <<dups[i].hash, f>>}) = 1
    /\ dups = <<>> => report.rows = <<Header>>

C6_ReportIsHeaderPlusOneRowPerPath ==
    /\ Saved => ReportIsExactly(duplicates)
    /\ (host = "gui" /\ Len(threads) = 1 /\ threads[1].pc = "report")
           => ReportIsExactly(threads[1].duplicates)

C6_Witness ==
    /\ Saved
    /\ oldReport.exists
    /\ duplicates # <<>>

\* C7: when the report cannot be created or written, the run ends in an error
\* the caller sees, on the command line and in the GUI alike, and the
\* completion summary is never presented for that run.
C7_ExportFailureIsSurfaced ==
    /\ (host = "cli" /\ pc = "raised") => stderr # <<>> /\ ~summary.shown
    /\ host = "gui" => \A t \in 1..Len(threads) : threads[t].pc = "died" =>
           \/ messagebox > Cardinality({i \in 1..Len(clicks) : clicks[i] = "invalid"})
           \/ status_label.text \notin {"", "Analizando archivos...", "Analisis completado."}

\* C8: format_size returns a rendered string for every byte count, with the
\* first unit whose scaled value is below 1024, and with TB for every count at
\* or above 1024^5.
C8_FormatSizeAlwaysRenders ==
    (host = "format" /\ fmt_result.kind # "pending") =>
        /\ fmt_result.kind = "str"
        /\ fmt_result.unit = Units[IF Len(bytes_arg) < Len(Units) THEN Len(bytes_arg) ELSE Len(Units)]

\* C9: the GUI runs at most one analyze_duplicates at a time, whatever the
\* clicks on the analyze button.
Running == {t \in 1..Len(threads) : threads[t].pc \notin {"exit", "died"}}
C9_OneInvocationAtATime == host = "gui" => Cardinality(Running) <= 1

\* C10: the phases of one run follow each other in the order scan, estimate,
\* export, summary, never going back: each file is hashed exactly once, nothing
\* is filtered before every file was processed, the report is not opened before
\* the estimate is done and the summary comes after the export.
PhaseOrder ==
    {<<"input", "returned">>, <<"input", "walk">>, <<"walk", "estimate">>,
     <<"estimate", "save">>, <<"save", "write">>, <<"save", "raised">>,
     <<"write", "summary">>, <<"write", "raised">>, <<"summary", "done">>}
PhaseInvariant ==
    host = "cli" =>
        /\ \A f \in Files : hashed[f] <= 1
        /\ \A f \in Files : hashed[f] = 1 <=> (isdir /\ pc # "input" /\ f \notin todo)
        /\ pc \in {"input", "walk"} => duplicates = <<>> /\ sizes = EmptyMap
        /\ Returned => todo = {} /\ duplicates = FilterDuplicates(hash_to_files)
        /\ pc \in {"input", "returned", "walk", "estimate", "save"} => report = oldReport
        /\ pc = "write" => report.rows = <<>>
        /\ summary.shown <=> pc = "done"
        /\ Saved => Len(report.rows) = 1 + RowCount(duplicates)
PhaseStep ==
    host = "cli" =>
        /\ pc' # pc => <<pc, pc'>> \in PhaseOrder
        /\ \A f \in Files : hashed'[f] >= hashed[f]
        /\ (pc = "walk" /\ pc' = "walk") => Cardinality(todo') = Cardinality(todo) - 1
C10_PhasesRunInOrder == []PhaseInvariant /\ [][PhaseStep]_vars

C10_Witness ==
    /\ host = "cli"
    /\ pc = "done"
    /\ Cardinality(Files) >= 2
    /\ duplicates # <<>>

====
